---- MODULE Spec2Model ----
(***************************************************************************)
(* Model of Backend/api_server.py: a Flask application with three routes   *)
(* (/health-check, /process-video, /upload-video), two error handlers and  *)
(* an after_request hook, run with threaded=True.                          *)
(*                                                                         *)
(* Strings the code inspects character by character (file names, paths,    *)
(* the instruction) are sequences of one-character strings.  The Chinese   *)
(* literals of the source are written as ASCII stand-ins; the comment at   *)
(* each stand-in gives the source line of the literal.                     *)
(***************************************************************************)
EXTENDS FiniteSets, Integers, Sequences, TLC

(***************************************************************************)
(* Bounds                                                                  *)
(***************************************************************************)
MaxByte == 1
MaxContentLen == 1
MaxInstrLen == 1
NumThreads == 2

Byte == 0..MaxByte

RECURSIVE SeqsUpTo(_, _)
SeqsUpTo(S, n) ==
  IF n = 0 THEN {<<>>}
  ELSE LET shorter == SeqsUpTo(S, n - 1)
       IN  shorter \cup {Append(s, c) : s \in {t \in shorter : Len(t) = n - 1}, c \in S}

\* The bodies a client can upload.
Content == SeqsUpTo(Byte, MaxContentLen)

\* The instruction strings a client can send.
InstrChar == {"x", "/"}
Instruction == SeqsUpTo(InstrChar, MaxInstrLen)

(***************************************************************************)
(* Strings and paths                                                       *)
(***************************************************************************)
Sep == "/"
Dot == <<".">>
DotDot == <<".", ".">>

\* upload_folder = 'uploads'
upload_folder == <<"u", "p", "l", "o", "a", "d", "s">>

\* The file names a client supplies in the multipart part `video`: empty,
\* plain, with a parent reference, with a sub-directory.
Filename ==
  { <<>>,
    <<"a">>,
    <<".", ".", "/", "a">>,
    <<"s", "/", "a">> }

\* A file name without a separator that is neither "." nor "..".
IsPlainName(name) ==
  /\ name # <<>>
  /\ \A i \in 1..Len(name) : name[i] # Sep
  /\ name # Dot
  /\ name # DotDot

\* os.path.join(a, b) on POSIX: an absolute b discards a; otherwise the
\* two are joined with exactly one separator.
PathJoin(a, b) ==
  IF Len(b) > 0 /\ b[1] = Sep THEN b
  ELSE IF a = <<>> \/ a[Len(a)] = Sep THEN a \o b
  ELSE a \o <<Sep>> \o b

\* The components of a path: the maximal runs between separators.
RECURSIVE SplitFrom(_, _, _)
SplitFrom(path, i, cur) ==
  IF i > Len(path) THEN <<cur>>
  ELSE IF path[i] = Sep THEN <<cur>> \o SplitFrom(path, i + 1, <<>>)
  ELSE SplitFrom(path, i + 1, Append(cur, path[i]))

Split(path) == SplitFrom(path, 1, <<>>)

(***************************************************************************)
(* The file system the process sees.  A node is the sequence of component  *)
(* names from the root; fs.dirs is the set of directory nodes and fs.files *)
(* maps each regular-file node to its bytes.                               *)
(***************************************************************************)
Root == <<>>
\* The working directory of the server process.
Cwd == << <<"w">> >>
UploadDir == Append(Cwd, upload_folder)

Parent(node) == IF node = Root THEN Root ELSE SubSeq(node, 1, Len(node) - 1)

IsDir(fs, node) == node \in fs.dirs
IsFile(fs, node) == node \in DOMAIN fs.files

\* Walks the components comps[i..] from directory node `cur`; the last
\* component is looked up but need not exist.  Yields the node the path
\* names, or the errno of the failing intermediate component.
RECURSIVE Walk(_, _, _, _)
Walk(fs, cur, comps, i) ==
  IF i > Len(comps) THEN [err |-> "", node |-> cur, isdir |-> TRUE]
  ELSE LET c == comps[i]
           last == (i = Len(comps))
       IN  IF c = <<>> \/ c = Dot THEN Walk(fs, cur, comps, i + 1)
           ELSE IF c = DotDot THEN Walk(fs, Parent(cur), comps, i + 1)
           ELSE LET nxt == Append(cur, c)
                IN  IF IsDir(fs, nxt) THEN Walk(fs, nxt, comps, i + 1)
                    ELSE IF last THEN [err |-> "", node |-> nxt, isdir |-> FALSE]
                    ELSE IF IsFile(fs, nxt)
                         THEN [err |-> "NotADirectoryError", node |-> nxt, isdir |-> FALSE]
                         ELSE [err |-> "FileNotFoundError", node |-> nxt, isdir |-> FALSE]

\* Path resolution: absolute paths start at the root, others at Cwd.
Resolve(fs, path) ==
  Walk(fs, IF Len(path) > 0 /\ path[1] = Sep THEN Root ELSE Cwd, Split(path), 1)

\* os.path.exists(path)
PathExists(fs, path) ==
  LET r == Resolve(fs, path)
  IN  r.err = "" /\ (r.isdir \/ IsFile(fs, r.node))

\* os.makedirs(path) for a path whose parent exists: mkdir, which raises
\* FileExistsError when the name is already taken.
Makedirs(fs, path) ==
  LET r == Resolve(fs, path)
  IN  IF r.err # "" THEN [err |-> r.err, fs |-> fs]
      ELSE IF r.isdir \/ IsFile(fs, r.node) THEN [err |-> "FileExistsError", fs |-> fs]
      ELSE [err |-> "", fs |-> [fs EXCEPT !.dirs = @ \cup {r.node}]]

\* FileStorage.save(dst): open(dst, "wb") and copy the stream into it.
\* The file is created or truncated and then holds exactly the stream.
Save(fs, dst, content) ==
  LET r == Resolve(fs, dst)
  IN  IF r.err # "" THEN [err |-> r.err, fs |-> fs]
      ELSE IF r.isdir THEN [err |-> "IsADirectoryError", fs |-> fs]
      ELSE [err |-> "",
            fs |-> [fs EXCEPT !.files =
                      [n \in DOMAIN @ \cup {r.node} |-> IF n = r.node THEN content ELSE @[n]]]]

\* What reading the file at `path` yields: its bytes, or <<-1>> when the
\* path does not name a regular file.
NoFile == <<-1>>
ReadFile(fs, path) ==
  LET r == Resolve(fs, path)
  IN  IF r.err = "" /\ ~r.isdir /\ IsFile(fs, r.node) THEN fs.files[r.node] ELSE NoFile

(***************************************************************************)
(* JSON bodies and what Python does with the parsed value                  *)
(***************************************************************************)
\* The key the handler looks for: 'instruction'.
InstructionKey == <<"i", "n", "s", "t", "r", "u", "c", "t", "i", "o", "n">>
OtherKey == <<"k">>

\* A parsed JSON value.  t is its type; exactly one of the other fields is
\* meaningful.  An object is a set of <<key, value>> pairs with string values.
JValue(t, b, n, s, a, o) == [t |-> t, b |-> b, n |-> n, s |-> s, a |-> a, o |-> o]
JNull == JValue("null", FALSE, 0, <<>>, <<>>, {})
JBool(b) == JValue("bool", b, 0, <<>>, <<>>, {})
JNum(n) == JValue("num", FALSE, n, <<>>, <<>>, {})
JStr(s) == JValue("str", FALSE, 0, s, <<>>, {})
JArr(a) == JValue("arr", FALSE, 0, <<>>, a, {})
JObj(o) == JValue("obj", FALSE, 0, <<>>, <<>>, o)

\* Objects with the key `instruction` (any instruction string), with or
\* without another key.
ObjWithInstruction ==
  {JObj({<<InstructionKey, i>>}) : i \in Instruction}
    \cup {JObj({<<InstructionKey, <<>>>>, <<OtherKey, <<>>>>})}

\* Objects without the key `instruction`.
ObjWithoutInstruction == {JObj({}), JObj({<<OtherKey, <<"x">>>>})}

\* Valid JSON documents that are not objects.
NonObject ==
  {JNull, JBool(TRUE), JNum(0), JNum(5),
   JStr(<<"x">>), JStr(InstructionKey),
   JArr(<<>>), JArr(<<InstructionKey>>)}

JsonValue == ObjWithInstruction \cup ObjWithoutInstruction \cup NonObject

\* A request body: its mimetype, whether it parses as JSON, and the value.
Mimetype == {"application/json", "text/plain"}
Body(m, ok, v) == [mimetype |-> m, wellformed |-> ok, value |-> v]
EmptyBody == Body("text/plain", FALSE, JNull)
RequestBody ==
  {EmptyBody, Body("application/json", FALSE, JNull)}
    \cup {Body("application/json", TRUE, v) : v \in JsonValue}
    \cup {Body("text/plain", TRUE, JObj({<<InstructionKey, <<>>>>}))}

\* Python truth value: `not data` is ~Truthy(data).
Truthy(v) ==
  CASE v.t = "null" -> FALSE
    [] v.t = "bool" -> v.b
    [] v.t = "num" -> v.n # 0
    [] v.t = "str" -> v.s # <<>>
    [] v.t = "arr" -> v.a # <<>>
    [] v.t = "obj" -> v.o # {}

IsSubstring(x, s) ==
  \E i \in 0..(Len(s) - Len(x)) : SubSeq(s, i + 1, i + Len(x)) = x

Keys(o) == {kv[1] : kv \in o}

\* `key in data`: key membership in a dict, element membership in a list,
\* substring test on a str; bool and int are not iterable (TypeError).
Contains(key, v) ==
  CASE v.t = "obj" -> [err |-> "", val |-> key \in Keys(v.o)]
    [] v.t = "arr" -> [err |-> "", val |-> \E i \in 1..Len(v.a) : v.a[i] = key]
    [] v.t = "str" -> [err |-> "", val |-> IsSubstring(key, v.s)]
    [] OTHER -> [err |-> "TypeError", val |-> FALSE]

\* `data[key]` with a str key: the dict's value; list and str take integer
\* indices only (TypeError); a missing key is a KeyError.
GetItem(v, key) ==
  IF v.t = "obj"
  THEN IF key \in Keys(v.o)
       THEN [err |-> "", val |-> (CHOOSE kv \in v.o : kv[1] = key)[2]]
       ELSE [err |-> "KeyError", val |-> <<>>]
  ELSE [err |-> "TypeError", val |-> <<>>]

\* request.json.  A body whose mimetype is JSON is parsed; a malformed one
\* raises BadRequest.  For another mimetype the installed Flask decides:
\* before 2.1 the property yields None, from 2.1 on it raises (lenient
\* says which).
GetJson(body, lenient) ==
  IF body.mimetype = "application/json"
  THEN IF body.wellformed THEN [err |-> "", val |-> body.value]
       ELSE [err |-> "BadRequest", val |-> JNull]
  ELSE IF lenient THEN [err |-> "", val |-> JNull]
       ELSE [err |-> "UnsupportedMediaType", val |-> JNull]

\* Whether the installed Flask is one whose request.json yields None for a
\* body that is not declared as JSON.
FlaskBuild == BOOLEAN

(***************************************************************************)
(* Requests and responses                                                  *)
(***************************************************************************)
RemoteAddr == {"192.168.1.7"}

\* An uploaded part: werkzeug's FileStorage.
FileStorage(name, content) == [filename |-> name, stream |-> content]

\* request.files: the file parts by field name.
NoFiles == <<>>
Files ==
  {NoFiles}
    \cup {[video |-> FileStorage(n, c)] : n \in Filename, c \in Content}
    \cup {[other |-> FileStorage(<<"a">>, c)] : c \in Content}

Request(route, method, body, files, addr) ==
  [route |-> route, method |-> method, body |-> body, files |-> files, remote_addr |-> addr]

NoRequest == Request("", "", EmptyBody, NoFiles, "")

\* A response before the after_request hook: status, body, no extra headers.
Response(status, body) == [status |-> status, body |-> body, headers |-> <<>>]

NoResponse == Response(0, [kind |-> "none"])

\* make_response('', 200)
EmptyOk == Response(200, [kind |-> "empty"])

\* jsonify({"error": msg}), status
ErrorResponse(msg, status) == Response(status, [kind |-> "json", error |-> msg])

(***************************************************************************)
(* The hook and the error handler                                          *)
(***************************************************************************)
\* after_request as it would be if the headers were added to successful
\* responses only.
after_request_SuccessOnly(response) ==
  IF response.status >= 400 THEN response
  ELSE [response EXCEPT !.headers =
          @ \o << <<"Access-Control-Allow-Origin", "*">>,
                  <<"Access-Control-Allow-Headers", "Content-Type,Authorization">>,
                  <<"Access-Control-Allow-Methods", "GET,PUT,POST,DELETE,OPTIONS">> >>]

\* after_request: three headers are appended to every response.
after_request(response) ==
  [response EXCEPT !.headers =
     @ \o << <<"Access-Control-Allow-Origin", "*">>,
             <<"Access-Control-Allow-Headers", "Content-Type,Authorization">>,
             <<"Access-Control-Allow-Methods", "GET,PUT,POST,DELETE,OPTIONS">> >>]

\* errorhandler(404)
not_found == ErrorResponse("Not found", 404)

\* Flask's answer to a method the route does not list; no handler of the
\* application is registered for it.
method_not_allowed == Response(405, [kind |-> "html"])

(***************************************************************************)
(* The route handlers                                                      *)
(***************************************************************************)
\* health_check.  Source message literal (line 62): "server running normally".
health_check(request) ==
  IF request.method = "OPTIONS" THEN EmptyOk
  ELSE Response(200, [kind |-> "json", status |-> "ok",
                      message |-> "server running normally",
                      client_ip |-> request.remote_addr])

\* f"<prefix>{instruction}": the prefix of line 83 ("received instruction: ")
\* followed by the instruction.
MessagePrefix == <<"r", "e", "c", "v", ":", " ">>
\* The message as it would be if the string literal lacked its f prefix: the
\* placeholder is sent as written.
InstructionMessage_NotInterpolated(instruction) ==
  MessagePrefix \o <<"{", "i", "}">>

InstructionMessage(instruction) == MessagePrefix \o instruction

\* The literal of line 84 ("video processing complete").
ResultDone == "video processing complete"

\* The body of the try block of process_video (lines 73-85); err names the
\* exception that escapes it, if any.
process_video_try(request, lenient) ==
  LET data == GetJson(request.body, lenient)
      has == Contains(InstructionKey, data.val)
      instruction == GetItem(data.val, InstructionKey)
      \* line 76 ("missing required parameter")
      missing == ErrorResponse("missing required parameter", 400)
  IN  IF data.err # "" THEN [err |-> data.err, resp |-> NoResponse]
      ELSE IF ~Truthy(data.val) THEN [err |-> "", resp |-> missing]
      ELSE IF has.err # "" THEN [err |-> has.err, resp |-> NoResponse]
      ELSE IF ~has.val THEN [err |-> "", resp |-> missing]
      ELSE IF instruction.err # "" THEN [err |-> instruction.err, resp |-> NoResponse]
      ELSE [err |-> "",
            resp |-> Response(200, [kind |-> "json", status |-> "success",
                                    message |-> InstructionMessage(instruction.val),
                                    result |-> ResultDone])]

\* process_video as it would be if the OPTIONS test came after the body was
\* read.
process_video_LateOptions(request, lenient) ==
  LET r == process_video_try(request, lenient)
  IN  IF r.err # "" THEN ErrorResponse(r.err, 500)
      ELSE IF request.method = "OPTIONS" THEN EmptyOk
      ELSE r.resp

\* process_video: OPTIONS short-circuits; any exception of the try block
\* becomes a 500 carrying its description.
process_video(request, lenient) ==
  IF request.method = "OPTIONS" THEN EmptyOk
  ELSE LET r == process_video_try(request, lenient)
       IN  IF r.err # "" THEN ErrorResponse(r.err, 500) ELSE r.resp

\* upload_validate as it would be without the test of line 103.
upload_validate_NoNameTest(request) ==
  IF "video" \notin DOMAIN request.files THEN ErrorResponse("no file uploaded", 400)
  ELSE NoResponse

\* Lines 99-104 of upload_video: the two client errors, or kind "none"
\* when the request passes.  Literals: line 100 ("no file uploaded"),
\* line 104 ("no file selected").
upload_validate(request) ==
  IF "video" \notin DOMAIN request.files THEN ErrorResponse("no file uploaded", 400)
  ELSE IF request.files.video.filename = <<>> THEN ErrorResponse("no file selected", 400)
  ELSE NoResponse

\* Lines 108-109: the directory is created when the test finds it absent.
ensure_upload_folder(fs) ==
  IF ~PathExists(fs, upload_folder) THEN Makedirs(fs, upload_folder)
  ELSE [err |-> "", fs |-> fs]

\* Lines 111-119: the file is saved under the joined path and the path is
\* reported.  Literal of line 117: "video uploaded".
save_video(fs, video_file) ==
  LET file_path == PathJoin(upload_folder, video_file.filename)
      saved == Save(fs, file_path, video_file.stream)
  IN  IF saved.err # "" THEN [err |-> saved.err, fs |-> saved.fs, resp |-> NoResponse]
      ELSE [err |-> "", fs |-> saved.fs,
            resp |-> Response(200, [kind |-> "json", status |-> "success",
                                    message |-> "video uploaded",
                                    file_path |-> file_path])]

\* The try block as it would be if the directory were created before the
\* request is validated.
upload_video_try_EagerMkdir(fs, request) ==
  LET invalid == upload_validate(request)
      made == ensure_upload_folder(fs)
  IN  IF made.err # "" THEN [err |-> made.err, fs |-> made.fs, resp |-> NoResponse]
      ELSE IF invalid # NoResponse THEN [err |-> "", fs |-> made.fs, resp |-> invalid]
      ELSE save_video(made.fs, request.files.video)

\* The body of the try block of upload_video (lines 98-119).
upload_video_try(fs, request) ==
  LET invalid == upload_validate(request)
      made == ensure_upload_folder(fs)
  IN  IF invalid # NoResponse THEN [err |-> "", fs |-> fs, resp |-> invalid]
      ELSE IF made.err # "" THEN [err |-> made.err, fs |-> made.fs, resp |-> NoResponse]
      ELSE save_video(made.fs, request.files.video)

\* upload_video: OPTIONS short-circuits; any exception of the try block
\* becomes a 500 carrying its description.
upload_video(fs, request) ==
  IF request.method = "OPTIONS" THEN [fs |-> fs, resp |-> EmptyOk]
  ELSE LET r == upload_video_try(fs, request)
       IN  [fs |-> r.fs,
            resp |-> IF r.err # "" THEN ErrorResponse(r.err, 500) ELSE r.resp]

(***************************************************************************)
(* Routing                                                                 *)
(***************************************************************************)
Route == {"/health-check", "/process-video", "/upload-video"}

\* The methods each @app.route lists.
Methods(route) ==
  CASE route = "/health-check" -> {"GET", "OPTIONS"}
    [] route = "/process-video" -> {"POST", "OPTIONS"}
    [] route = "/upload-video" -> {"POST", "OPTIONS"}

Method == {"GET", "POST", "OPTIONS"}

(***************************************************************************)
(* State                                                                   *)
(*   fs        the file system                                             *)
(*   request   the request handled last, response the answer sent for it   *)
(*             (requests handled one after the other)                      *)
(*   thread    for each worker thread of the threaded server: the request  *)
(*             it is handling, where it is in the handler, and its answer  *)
(***************************************************************************)
VARIABLES fs, request, response, thread
vars == <<fs, request, response, thread>>

Thread == 1..NumThreads

\* The upload directory before the server handles anything: absent, empty,
\* or holding files.
InitialFs ==
  {[dirs |-> {Root, Cwd}, files |-> <<>>]}
    \cup {[dirs |-> {Root, Cwd, UploadDir}, files |-> f] :
            f \in {<<>>} \cup {[n \in {Append(UploadDir, <<"a">>)} |-> c] : c \in Content}}

IdleThread == [pc |-> "idle", request |-> NoRequest, response |-> NoResponse]

Init ==
  /\ fs \in InitialFs
  /\ request = NoRequest
  /\ response = NoResponse
  /\ thread = [t \in Thread |-> IdleThread]

(***************************************************************************)
(* Requests handled one after the other: one action per handler, each the  *)
(* whole of dispatch, handler and after_request.                           *)
(***************************************************************************)
HealthCheck ==
  \E m \in Methods("/health-check"), a \in RemoteAddr :
    LET r == Request("/health-check", m, EmptyBody, NoFiles, a)
    IN  /\ request' = r
        /\ response' = after_request(health_check(r))
        /\ UNCHANGED <<fs, thread>>

ProcessVideo ==
  \E m \in Methods("/process-video"), b \in RequestBody, a \in RemoteAddr,
     lenient \in FlaskBuild :
    LET r == Request("/process-video", m, b, NoFiles, a)
    IN  /\ request' = r
        /\ response' = after_request(process_video(r, lenient))
        /\ UNCHANGED <<fs, thread>>

UploadVideo ==
  \E m \in Methods("/upload-video"), f \in Files, a \in RemoteAddr :
    LET r == Request("/upload-video", m, EmptyBody, f, a)
        out == upload_video(fs, r)
    IN  /\ request' = r
        /\ response' = after_request(out.resp)
        /\ fs' = out.fs
        /\ UNCHANGED thread

\* A path no route matches.
NotFound ==
  \E m \in Method, a \in RemoteAddr :
    /\ request' = Request("/", m, EmptyBody, NoFiles, a)
    /\ response' = after_request(not_found)
    /\ UNCHANGED <<fs, thread>>

\* A route asked with a method it does not list.
MethodNotAllowed ==
  \E rt \in Route, m \in Method, a \in RemoteAddr :
    /\ m \notin Methods(rt)
    /\ request' = Request(rt, m, EmptyBody, NoFiles, a)
    /\ response' = after_request(method_not_allowed)
    /\ UNCHANGED <<fs, thread>>

Next == HealthCheck \/ ProcessVideo \/ UploadVideo \/ NotFound \/ MethodNotAllowed

Spec == Init /\ [][Next]_vars
(***************************************************************************)
(* Requests handled concurrently (app.run(threaded=True)): each worker     *)
(* thread runs a handler; the steps of upload_video that read or write the *)
(* file system are separate steps, so that threads interleave between      *)
(* them.  Steps that touch no shared state are taken with the step before. *)
(***************************************************************************)
\* The requests the worker threads are given.
ConcurrentFiles ==
  {NoFiles} \cup {[video |-> FileStorage(n, c)] : n \in {<<>>, <<"a">>, <<"s", "/", "a">>}, c \in Content}

ConcurrentRequest ==
  {Request("/health-check", "GET", EmptyBody, NoFiles, a) : a \in RemoteAddr}
    \cup {Request("/process-video", "POST", b, NoFiles, a) :
            b \in {EmptyBody, Body("application/json", TRUE, JObj({<<InstructionKey, <<>>>>}))},
            a \in RemoteAddr}
    \cup {Request("/upload-video", m, EmptyBody, f, a) :
            m \in Methods("/upload-video"), f \in ConcurrentFiles, a \in RemoteAddr}

Done(t, resp) ==
  thread' = [thread EXCEPT ![t].pc = "done", ![t].response = after_request(resp)]

\* A free thread takes a request and runs its handler up to the first access
\* to the file system: every request but an upload that passed lines 99-104
\* is answered here.
T_Receive(t) ==
  /\ thread[t].pc \in {"idle", "done"}
  /\ \E r \in ConcurrentRequest, lenient \in FlaskBuild :
       LET answer ==
             CASE r.route = "/health-check" -> health_check(r)
               [] r.route = "/process-video" -> process_video(r, lenient)
               [] r.route = "/upload-video" ->
                    IF r.method = "OPTIONS" THEN EmptyOk ELSE upload_validate(r)
       IN  thread' = [thread EXCEPT ![t] =
                        IF answer = NoResponse
                        THEN [pc |-> "exists", request |-> r, response |-> NoResponse]
                        ELSE [pc |-> "done", request |-> r, response |-> after_request(answer)]]
  /\ UNCHANGED <<fs, request, response>>

\* Line 108: os.path.exists(upload_folder).
T_Exists(t) ==
  /\ thread[t].pc = "exists"
  /\ thread' = [thread EXCEPT ![t].pc =
                  IF ~PathExists(fs, upload_folder) THEN "makedirs" ELSE "save"]
  /\ UNCHANGED <<fs, request, response>>

\* Line 109: os.makedirs(upload_folder); an exception ends the handler in
\* the except clause of line 121.
T_Makedirs(t) ==
  /\ thread[t].pc = "makedirs"
  /\ LET made == Makedirs(fs, upload_folder)
     IN  /\ fs' = made.fs
         /\ IF made.err # "" THEN Done(t, ErrorResponse(made.err, 500))
            ELSE thread' = [thread EXCEPT ![t].pc = "save"]
  /\ UNCHANGED <<request, response>>

\* Lines 111-123: the save and the answer.
T_Save(t) ==
  /\ thread[t].pc = "save"
  /\ LET r == save_video(fs, thread[t].request.files.video)
     IN  /\ fs' = r.fs
         /\ Done(t, IF r.err # "" THEN ErrorResponse(r.err, 500) ELSE r.resp)
  /\ UNCHANGED <<request, response>>

ConcNext == \E t \in Thread : T_Receive(t) \/ T_Exists(t) \/ T_Makedirs(t) \/ T_Save(t)

ConcSpec == Init /\ [][ConcNext]_vars
(***************************************************************************)
(* Properties                                                              *)
(***************************************************************************)
IsUploadPost == request.route = "/upload-video" /\ request.method = "POST"
HasVideo == "video" \in DOMAIN request.files
ValidUpload == IsUploadPost /\ HasVideo /\ request.files.video.filename # <<>>

IsProcessPost == request.route = "/process-video" /\ request.method = "POST"

\* The body is declared as JSON, parses, and is an object with the key.
SuppliesInstruction(body) ==
  /\ body.wellformed
  /\ body.value.t = "obj"
  /\ InstructionKey \in Keys(body.value.o)

InstructionOf(body) == (CHOOSE kv \in body.value.o : kv[1] = InstructionKey)[2]

HasHeader(resp, name, value) ==
  \E i \in 1..Len(resp.headers) : resp.headers[i] = <<name, value>>

HasHeaderNamed(resp, name) ==
  \E i \in 1..Len(resp.headers) : resp.headers[i][1] = name

Inside(node, dir) ==
  Len(node) > Len(dir) /\ SubSeq(node, 1, Len(dir)) = dir

\* C1: every upload with a `video` part and a non-empty file name is answered
\* 200, and the file at the returned file_path then holds the uploaded bytes.
C1_ValidUploadStored ==
  ValidUpload =>
    /\ response.status = 200
    /\ ReadFile(fs, response.body.file_path) = request.files.video.stream

\* C2: every POST to /process-video that does not supply `instruction` is
\* answered 400 with an `error` field.
C2_MissingInstructionIs400 ==
  IsProcessPost /\ ~SuppliesInstruction(request.body) =>
    /\ response.status = 400
    /\ "error" \in DOMAIN response.body

\* C3: every POST to /process-video whose JSON body has the key `instruction`
\* is answered 200 with status "success", the fixed result literal, and a
\* message that contains the instruction verbatim.
C3_InstructionEchoed ==
  /\ IsProcessPost
  /\ request.body.mimetype = "application/json"
  /\ SuppliesInstruction(request.body)
  => /\ response.status = 200
     /\ response.body.status = "success"
     /\ response.body.result = ResultDone
     /\ IsSubstring(InstructionOf(request.body), response.body.message)

\* A non-empty instruction was sent and answered.
C3_Witness ==
  /\ IsProcessPost
  /\ request.body.mimetype = "application/json"
  /\ SuppliesInstruction(request.body)
  /\ Len(InstructionOf(request.body)) = MaxInstrLen
  /\ response.status = 200

\* C4: every upload without a `video` part, or with an empty file name, is
\* answered 400.
C4_InvalidUploadIs400 ==
  IsUploadPost /\ (~HasVideo \/ request.files.video.filename = <<>>) =>
    response.status = 400

\* A `video` part with an empty file name was rejected.
C4_Witness ==
  /\ IsUploadPost
  /\ HasVideo
  /\ request.files.video.filename = <<>>
  /\ response.status = 400

\* C5: every stored file lies inside the upload directory, under the name the
\* client supplied, and the directory exists whenever it holds a file.
C5_StoredInsideUploads ==
  /\ \A n \in DOMAIN fs.files : Inside(n, UploadDir) /\ UploadDir \in fs.dirs
  /\ (ValidUpload /\ response.status = 200) =>
       Append(UploadDir, request.files.video.filename) \in DOMAIN fs.files

\* C6: of two uploads with the same file name handled one after the other,
\* both are answered 200 and the file then holds the bytes of the second.
C6_LastWriteWins ==
  [][(/\ ValidUpload
      /\ ValidUpload'
      /\ request'.files.video.filename = request.files.video.filename)
     => /\ response.status = 200
        /\ response'.status = 200
        /\ ReadFile(fs', response'.body.file_path) = request'.files.video.stream]_vars

\* C7: an upload with a plain file name is answered 200 under every
\* interleaving with the other threads, as it is when handled alone.
C7_ConcurrentUploadsSucceed ==
  \A t \in Thread :
    /\ thread[t].pc = "done"
    /\ thread[t].request.route = "/upload-video"
    /\ thread[t].request.method = "POST"
    /\ "video" \in DOMAIN thread[t].request.files
    /\ IsPlainName(thread[t].request.files.video.filename)
    => thread[t].response.status = 200

\* C8: every OPTIONS request to one of the three routes is answered 200 with
\* an empty body, whatever its body or form.
C8_OptionsEmptyOk ==
  request.method = "OPTIONS" /\ request.route \in Route =>
    /\ response.status = 200
    /\ response.body = [kind |-> "empty"]

\* An OPTIONS request whose body would be a fault under POST was answered.
C8_Witness ==
  /\ request.method = "OPTIONS"
  /\ request.route = "/process-video"
  /\ request.body = Body("application/json", FALSE, JNull)
  /\ response.status = 200

\* C9: every response carries the three cross-origin headers: the wildcard
\* origin, an allow-list of headers, and the five methods.
C9_CorsHeaders ==
  response # NoResponse =>
    /\ HasHeader(response, "Access-Control-Allow-Origin", "*")
    /\ HasHeaderNamed(response, "Access-Control-Allow-Headers")
    /\ HasHeader(response, "Access-Control-Allow-Methods", "GET,PUT,POST,DELETE,OPTIONS")

\* A fault answered 500 carries the headers.
C9_Witness ==
  /\ response.status = 500
  /\ HasHeader(response, "Access-Control-Allow-Origin", "*")

====
